---- MODULE Spec2Model ----
(***************************************************************************)
(* Model of ccd_xsd_validator.py: the CCDValidator class (load_schema,     *)
(* validate_file, validate_directory, generate_report and the three        *)
(* renderers' summaries) and main().  The XML parser, the schema engine    *)
(* and the file system are the environment: every call into them picks     *)
(* its outcome nondeterministically among the outcomes the call can have.  *)
(***************************************************************************)
EXTENDS Integers, Sequences, FiniteSets, TLC

\* ---- bounds ------------------------------------------------------------
MaxFiles == 2      \* most candidate files directory.glob yields
MaxLog == 2        \* most entries of schema.error_log after a failed validate

\* ---- values ------------------------------------------------------------
None == "None"
PathArgs == {None, "", "p"}            \* an absent option, an empty string, a path
Formats == {"text", "json", "html"}
Files == {ToString(i) : i \in 1..MaxFiles}   \* the *.xml files the directory can hold

VARIABLES
    pc,          \* position of main / validate_file / validate_directory
    args,        \* argparse namespace: file, dir, format, output
    schema,      \* self.schema: "None", "loaded", or "failed" (load raised)
    xml_files,   \* list(directory.glob(pattern))
    enumerated,  \* directory.glob has been called
    idx,         \* position of the for loop of validate_directory (1-based)
    caller,      \* who called validate_file: "main" or "validate_directory"
    result,      \* the result dict validate_file is building, NoResult outside
    trace,       \* parser / engine calls made by the running validate_file
    results,     \* the results list
    traces,      \* trace of each finished validate_file, aligned with results
    report,      \* <<what generate_report rendered>>, <<>> before
    written,     \* the report reached its sink (file or console)
    raised,      \* exception that propagated out of main, None if none
    exitStatus   \* process exit status, -1 while running

vars == <<pc, args, schema, xml_files, enumerated, idx, caller, result, trace,
          results, traces, report, written, raised, exitStatus>>

\* ---- helpers -----------------------------------------------------------

\* Python truthiness of an optional string argument (`not args.file`).
Truthy(x) == x # None /\ x # ""

\* Variant: 'valid' initialised to True.
NewResultValidDefault(path) ==
    [file |-> path, valid |-> TRUE, well_formed |-> FALSE, errors |-> <<>>]
\* result = {'file': ..., 'valid': False, 'well_formed': False, 'errors': []}
NewResult(path) ==
    [file |-> path, valid |-> FALSE, well_formed |-> FALSE, errors |-> <<>>]

\* No validate_file call is running.
NoResult == NewResult(None)

\* result['errors'].append({'type': t, ...})
AddError(r, t) == [r EXCEPT !.errors = Append(@, [type |-> t])]

\* for error in self.schema.error_log: result['errors'].append({...})
SchemaErrors(r, n) ==
    [r EXCEPT !.errors = @ \o [i \in 1..n |-> [type |-> "SCHEMA_VALIDATION_ERROR"]]]

\* The except clauses of the outer try of validate_file, in order:
\* FileNotFoundError first, then Exception.
HandlerType(exc) ==
    IF exc = "FileNotFoundError" THEN "FILE_NOT_FOUND" ELSE "UNEXPECTED_ERROR"

\* Variant: the `except Exception` clause is missing.
OnlyFileNotFoundHandled(exc) == exc = "FileNotFoundError"

\* Does the outer try of validate_file catch exc?  `except Exception`
\* catches every exception kind the parser, engine or open() raises.
Handled(exc) == exc \in {"FileNotFoundError", "OSError", "XMLSchemaValidateError"}

\* sum(1 for r in results if r['valid'])
RECURSIVE valid_count(_)
valid_count(rs) ==
    IF rs = <<>> THEN 0
    ELSE (IF Head(rs).valid THEN 1 ELSE 0) + valid_count(Tail(rs))

\* Variant: counts the results that are not well-formed.
RECURSIVE CountNotWellFormed(_)
CountNotWellFormed(rs) ==
    IF rs = <<>> THEN 0
    ELSE (IF ~Head(rs).well_formed THEN 1 ELSE 0) + CountNotWellFormed(Tail(rs))

\* sum(1 for r in results if not r['valid'])
RECURSIVE invalid_sum(_)
invalid_sum(rs) ==
    IF rs = <<>> THEN 0
    ELSE (IF ~Head(rs).valid THEN 1 ELSE 0) + invalid_sum(Tail(rs))

\* Summary of _generate_text_report.
text_summary(rs) ==
    [total |-> Len(rs), valid |-> valid_count(rs),
     invalid |-> Len(rs) - valid_count(rs)]

\* Summary of _generate_json_report.
json_summary(rs) ==
    [total |-> Len(rs), valid |-> valid_count(rs), invalid |-> invalid_sum(rs)]

\* Summary of _generate_html_report.
html_summary(rs) ==
    [total |-> Len(rs), valid |-> valid_count(rs),
     invalid |-> Len(rs) - valid_count(rs)]

\* generate_report's dispatch on output_format.
Render(rs, format) ==
    [format |-> format,
     summary |-> IF format = "json" THEN json_summary(rs)
                 ELSE IF format = "html" THEN html_summary(rs)
                 ELSE text_summary(rs)]

\* Variant: all() in place of any().
AllInvalid(rs) == rs # <<>> /\ \A i \in 1..Len(rs) : ~rs[i].valid

\* any(not r['valid'] for r in results)
AnyInvalid(rs) == \E i \in 1..Len(rs) : ~rs[i].valid

\* ---- initial state -----------------------------------------------------
Init ==
    /\ pc = "parse_args"
    /\ args \in [file : PathArgs, dir : PathArgs, format : Formats,
                 output : {None, "out"}]
    /\ schema = None
    /\ xml_files = <<>>
    /\ enumerated = FALSE
    /\ idx = 1
    /\ caller = None
    /\ result = NoResult
    /\ trace = <<>>
    /\ results = <<>>
    /\ traces = <<>>
    /\ report = <<>>
    /\ written = FALSE
    /\ raised = None
    /\ exitStatus = -1

\* ---- main --------------------------------------------------------------

\* Variant: the second `not` is missing.
UsageErrorDroppedNot(a) == ~Truthy(a.file) /\ Truthy(a.dir)

\* if not args.file and not args.dir: parser.error(...)
UsageError(a) == ~Truthy(a.file) /\ ~Truthy(a.dir)

\* args = parser.parse_args(); parser.error exits with status 2.
ParseArgs ==
    /\ pc = "parse_args"
    /\ IF UsageError(args)
       THEN /\ pc' = "done"
            /\ exitStatus' = 2
       ELSE /\ pc' = "load_schema"
            /\ UNCHANGED exitStatus
    /\ UNCHANGED <<args, schema, xml_files, enumerated, idx, caller, result,
                   trace, results, traces, report, written, raised>>

\* Variant: load_schema reports the failure and returns.
AfterLoadContinue(ok) == "validate"

\* Where main continues after load_schema: sys.exit(1) on failure.
AfterLoad(ok) == IF ok THEN "validate" ELSE "done"

\* validator = CCDValidator(args.xsd): __init__ calls load_schema.
LoadSchema ==
    /\ pc = "load_schema"
    /\ \E ok \in BOOLEAN :
        /\ schema' = IF ok THEN "loaded" ELSE "failed"
        /\ pc' = AfterLoad(ok)
        /\ exitStatus' = IF ok THEN exitStatus ELSE 1
    /\ UNCHANGED <<args, xml_files, enumerated, idx, caller, result, trace,
                   results, traces, report, written, raised>>

\* Variant: main tests args.dir first.
DirFirst(a) == ~Truthy(a.dir)

\* if args.file: ... else: ...   (which input source main uses)
UseFile(a) == Truthy(a.file)

\* results = [validator.validate_file(args.file)]: the call.
MainValidateFile ==
    /\ pc = "validate"
    /\ UseFile(args)
    /\ caller' = "main"
    /\ result' = NewResult(args.file)
    /\ trace' = <<>>
    /\ pc' = "vf_open"
    /\ UNCHANGED <<args, schema, xml_files, enumerated, idx, results, traces,
                   report, written, raised, exitStatus>>

\* The orders in which glob can yield a set of files: every sequence of
\* distinct files.
Enumerations ==
    {s \in UNION {[1..n -> Files] : n \in 0..MaxFiles} :
        \A i, j \in 1..Len(s) : i # j => s[i] # s[j]}

\* validate_directory up to the for loop: glob, and the early return when
\* nothing was found.
ValidateDirectory ==
    /\ pc = "validate"
    /\ ~UseFile(args)
    /\ \E fs \in Enumerations :
        /\ xml_files' = fs
        /\ pc' = IF fs = <<>> THEN "report" ELSE "dir_loop"
    /\ enumerated' = TRUE
    /\ results' = <<>>
    /\ idx' = 1
    /\ UNCHANGED <<args, schema, caller, result, trace, traces, report,
                   written, raised, exitStatus>>

\* for xml_file in xml_files: result = self.validate_file(xml_file)
\* and `return results` once the list is exhausted.
DirLoop ==
    /\ pc = "dir_loop"
    /\ IF idx <= Len(xml_files)
       THEN /\ caller' = "validate_directory"
            /\ result' = NewResult(xml_files[idx])
            /\ trace' = <<>>
            /\ pc' = "vf_open"
       ELSE /\ pc' = "report"
            /\ UNCHANGED <<caller, result, trace>>
    /\ UNCHANGED <<args, schema, xml_files, enumerated, idx, results, traces,
                   report, written, raised, exitStatus>>

\* ---- validate_file -----------------------------------------------------

\* An exception reaches the outer try of validate_file: it is recorded and
\* the function falls through to `return result`, or (were it not caught)
\* it propagates out of main, which ends the process with a traceback.
Except(exc) ==
    IF Handled(exc)
    THEN /\ result' = AddError(result, HandlerType(exc))
         /\ pc' = "vf_return"
         /\ UNCHANGED <<raised, exitStatus>>
    ELSE /\ raised' = exc
         /\ exitStatus' = 1
         /\ pc' = "done"
         /\ UNCHANGED result

\* with open(ccd_path, 'rb') as xml_file:
ValidateFileOpen ==
    /\ pc = "vf_open"
    /\ \E o \in {"ok", "FileNotFoundError", "OSError"} :
        /\ trace' = Append(trace, IF o = "ok" THEN "open" ELSE "open_raised")
        /\ IF o = "ok"
           THEN /\ pc' = "vf_parse"
                /\ UNCHANGED <<result, raised, exitStatus>>
           ELSE Except(o)
    /\ UNCHANGED <<args, schema, xml_files, enumerated, idx, caller, results,
                   traces, report, written>>

\* Variant: the `return result` of the inner except is missing.
AfterSyntaxErrorFallThrough == "vf_validate"

\* After the inner `except etree.XMLSyntaxError`: `return result`.
AfterSyntaxError == "vf_return"

\* doc = etree.parse(xml_file); result['well_formed'] = True
\* except etree.XMLSyntaxError: append XML_SYNTAX_ERROR; return result
ValidateFileParse ==
    /\ pc = "vf_parse"
    /\ \E o \in {"ok", "XMLSyntaxError", "OSError"} :
        /\ trace' = Append(trace, IF o = "ok" THEN "parse"
                                   ELSE IF o = "XMLSyntaxError" THEN "parse_syntax_error"
                                   ELSE "parse_raised")
        /\ CASE o = "ok" ->
                  /\ result' = [result EXCEPT !.well_formed = TRUE]
                  /\ pc' = "vf_validate"
                  /\ UNCHANGED <<raised, exitStatus>>
             [] o = "XMLSyntaxError" ->
                  /\ result' = AddError(result, "XML_SYNTAX_ERROR")
                  /\ pc' = AfterSyntaxError
                  /\ UNCHANGED <<raised, exitStatus>>
             [] OTHER -> Except(o)
    /\ UNCHANGED <<args, schema, xml_files, enumerated, idx, caller, results,
                   traces, report, written>>

\* Variant: the error log is copied whatever validate returned.
ValidatedKeepErrors(r, ok, n) == SchemaErrors([r EXCEPT !.valid = ok], n)

\* The result after self.schema.validate(doc) returned ok with n log entries.
Validated(r, ok, n) ==
    IF ok THEN [r EXCEPT !.valid = TRUE] ELSE SchemaErrors(r, n)

\* if self.schema.validate(doc): ... else: for error in self.schema.error_log
ValidateFileValidate ==
    /\ pc = "vf_validate"
    /\ \E o \in {"true", "false", "XMLSchemaValidateError"} :
        /\ trace' = Append(trace, "validate")
        /\ IF o = "XMLSchemaValidateError"
           THEN Except(o)
           ELSE /\ \E n \in 0..MaxLog :
                     result' = Validated(result, o = "true", n)
                /\ pc' = "vf_return"
                /\ UNCHANGED <<raised, exitStatus>>
    /\ UNCHANGED <<args, schema, xml_files, enumerated, idx, caller, results,
                   traces, report, written>>

\* results.append(result) in validate_directory.
AppendResult(rs, r) == Append(rs, r)

\* return result, and the caller's use of it: main wraps it in a list,
\* validate_directory appends it and moves to the next file.
ValidateFileReturn ==
    /\ pc = "vf_return"
    /\ IF caller = "main"
       THEN /\ results' = <<result>>
            /\ traces' = <<trace>>
            /\ pc' = "report"
            /\ UNCHANGED idx
       ELSE /\ results' = AppendResult(results, result)
            /\ traces' = Append(traces, trace)
            /\ idx' = idx + 1
            /\ pc' = "dir_loop"
    /\ result' = NoResult
    /\ trace' = <<>>
    /\ caller' = None
    /\ UNCHANGED <<args, schema, xml_files, enumerated, report, written,
                   raised, exitStatus>>

\* ---- report and exit ---------------------------------------------------

\* validator.generate_report(results, args.format, args.output): render,
\* then write to the output file (open(output_file, 'w') can raise, which
\* nothing catches) or print.
GenerateReport ==
    /\ pc = "report"
    /\ report' = <<Render(results, args.format)>>
    /\ IF Truthy(args.output)
       THEN \E ok \in BOOLEAN :
             /\ written' = ok
             /\ raised' = IF ok THEN None ELSE "OSError"
             /\ exitStatus' = IF ok THEN exitStatus ELSE 1
             /\ pc' = IF ok THEN "exit" ELSE "done"
       ELSE /\ written' = TRUE
            /\ pc' = "exit"
            /\ UNCHANGED <<raised, exitStatus>>
    /\ UNCHANGED <<args, schema, xml_files, enumerated, idx, caller, result,
                   trace, results, traces>>

\* if any(not r['valid'] for r in results): sys.exit(1); else main returns.
ExitCode(rs) == IF AnyInvalid(rs) THEN 1 ELSE 0

MainExit ==
    /\ pc = "exit"
    /\ exitStatus' = ExitCode(results)
    /\ pc' = "done"
    /\ UNCHANGED <<args, schema, xml_files, enumerated, idx, caller, result,
                   trace, results, traces, report, written, raised>>

Next ==
    \/ ParseArgs
    \/ LoadSchema
    \/ MainValidateFile
    \/ ValidateDirectory
    \/ DirLoop
    \/ ValidateFileOpen
    \/ ValidateFileParse
    \/ ValidateFileValidate
    \/ ValidateFileReturn
    \/ GenerateReport
    \/ MainExit

Spec == Init /\ [][Next]_vars

\* ---- properties --------------------------------------------------------

\* The results validate_file has returned so far: those already collected,
\* and the one it is about to return.
Returned ==
    {results[i] : i \in 1..Len(results)}
        \cup (IF pc = "vf_return" THEN {result} ELSE {})

\* The traces of the validate_file calls made so far, the running one included.
Traces == {traces[i] : i \in 1..Len(traces)} \cup {trace}

ErrorTypes(r) == {r.errors[i].type : i \in 1..Len(r.errors)}

AllValid(rs) == \A i \in 1..Len(rs) : rs[i].valid

\* C1: no per-file failure aborts the run.  No exception leaves
\* validate_file (the only exception that ever leaves main comes from
\* generate_report), and validate_directory collects exactly one result per
\* enumerated candidate, in enumeration order: a prefix while it loops, the
\* whole list once it has returned.
C1_NoAbort ==
    /\ raised # None => report # <<>>
    /\ enumerated =>
        /\ Len(results) <= Len(xml_files)
        /\ \A i \in 1..Len(results) : results[i].file = xml_files[i]
        /\ pc \in {"dir_loop", "vf_open", "vf_parse", "vf_validate", "vf_return"}
              => Len(results) = idx - 1
        /\ pc \in {"report", "exit", "done"} => Len(results) = Len(xml_files)

C1_Witness ==
    /\ enumerated
    /\ pc = "report"
    /\ Len(results) >= 2
    /\ \E i, j \in 1..Len(results) :
        /\ "UNEXPECTED_ERROR" \in ErrorTypes(results[i])
        /\ "XML_SYNTAX_ERROR" \in ErrorTypes(results[j])

C3_ValidImpliesClean ==
    \A r \in Returned : r.valid => (r.errors = <<>> /\ r.well_formed)

C3_Witness == \E r \in Returned : r.valid

\* C4 as stated: a result that is not well-formed is invalid and carries
\* exactly one record, of type XML_SYNTAX_ERROR.
C4_Original ==
    \A r \in Returned :
        ~r.well_formed =>
            /\ ~r.valid
            /\ Len(r.errors) = 1
            /\ r.errors[1].type = "XML_SYNTAX_ERROR"

\* C4 amended: a result that is not well-formed is invalid and carries
\* exactly one record, of type XML_SYNTAX_ERROR, FILE_NOT_FOUND or
\* UNEXPECTED_ERROR.
C4_NotWellFormed ==
    \A r \in Returned :
        ~r.well_formed =>
            /\ ~r.valid
            /\ Len(r.errors) = 1
            /\ r.errors[1].type \in
                  {"XML_SYNTAX_ERROR", "FILE_NOT_FOUND", "UNEXPECTED_ERROR"}

C4_Witness ==
    \E r \in Returned :
        /\ ~r.well_formed
        /\ ErrorTypes(r) = {"FILE_NOT_FOUND"}

\* C5 as stated: a returned result has no errors exactly when it is valid.
C5_Claim ==
    \A r \in Returned : (r.errors = <<>>) <=> r.valid

\* C6: once loading the schema has failed the process is over with a
\* non-zero status, and nothing was validated, enumerated, rendered or
\* written.
C6_FailFast ==
    schema = "failed" =>
        /\ pc = "done"
        /\ exitStatus = 1
        /\ results = <<>> /\ result = NoResult
        /\ traces = <<>> /\ trace = <<>>
        /\ ~enumerated
        /\ report = <<>> /\ ~written

C6_Witness == schema = "failed" /\ pc = "done"

\* C7: with neither --file nor --dir the process ends at argument parsing
\* with the usage status: the schema is never loaded, nothing is validated
\* and no report is generated.
C7_UsageError ==
    (args.file = None /\ args.dir = None) =>
        /\ pc \in {"parse_args", "done"}
        /\ pc = "done" => exitStatus = 2
        /\ schema = None
        /\ results = <<>> /\ result = NoResult
        /\ traces = <<>> /\ trace = <<>>
        /\ ~enumerated
        /\ report = <<>> /\ ~written

C7_Witness ==
    args.file = None /\ args.dir = None /\ pc = "done" /\ exitStatus = 2

\* C8 as stated: an invocation with both --file and --dir is rejected: no
\* file is validated and no report is produced.
C8_Original ==
    (Truthy(args.file) /\ Truthy(args.dir)) =>
        /\ Traces = {<<>>}
        /\ results = <<>>
        /\ report = <<>>

\* C8 amended: an invocation with both a non-empty --file and a --dir is
\* accepted, never ends with the usage status, and --file wins: the
\* directory is never enumerated, and the report is generated over exactly
\* one result, that of the file.
C8_FileWins ==
    (Truthy(args.file) /\ args.dir # None) =>
        /\ exitStatus # 2
        /\ ~enumerated
        /\ \A r \in Returned : r.file = args.file
        /\ report # <<>> => (Len(results) = 1 /\ results[1].file = args.file)

C8_Witness ==
    /\ Truthy(args.file) /\ Truthy(args.dir)
    /\ report # <<>> /\ written
    /\ Len(results) = 1

\* C9: for the result list at hand the three renderers' summaries agree,
\* and in each total = valid + invalid, total is the number of results and
\* valid the number of results whose valid flag is set; the summary of the
\* rendered report is that of its format.
NumValid(rs) == Cardinality({i \in 1..Len(rs) : rs[i].valid})

C9_Summary ==
    /\ \A s \in {text_summary(results), json_summary(results),
                 html_summary(results)} :
          /\ s.total = s.valid + s.invalid
          /\ s.total = Len(results)
          /\ s.valid = NumValid(results)
    /\ text_summary(results) = json_summary(results)
    /\ json_summary(results) = html_summary(results)
    /\ \A i \in 1..Len(report) :
          report[i].summary.total
              = report[i].summary.valid + report[i].summary.invalid

C9_Witness ==
    /\ report # <<>>
    /\ report[1].format = "json"
    /\ Len(results) >= 2
    /\ \E i, j \in 1..Len(results) :
          /\ results[i].valid
          /\ ~results[j].valid /\ results[j].well_formed

\* C10: in every validate_file call the engine's validate comes directly
\* after a successful parse, never after a parse that raised a syntax
\* error, and no result that is not well-formed holds a
\* SCHEMA_VALIDATION_ERROR record.
C10_ShortCircuit ==
    /\ \A t \in Traces :
          /\ \A k \in 1..Len(t) :
                t[k] = "validate" => (k > 1 /\ t[k - 1] = "parse")
          /\ (\E k \in 1..Len(t) : t[k] = "parse_syntax_error")
                => (\A k \in 1..Len(t) : t[k] # "validate")
    /\ \A r \in Returned :
          ~r.well_formed => "SCHEMA_VALIDATION_ERROR" \notin ErrorTypes(r)

C10_Witness ==
    /\ pc = "report"
    /\ \E i \in 1..Len(results) :
          /\ ~results[i].well_formed
          /\ ErrorTypes(results[i]) = {"XML_SYNTAX_ERROR"}
          /\ traces[i] = <<"open", "parse_syntax_error">>
    /\ \E i \in 1..Len(results) :
          /\ "SCHEMA_VALIDATION_ERROR" \in ErrorTypes(results[i])
          /\ traces[i] = <<"open", "parse", "validate">>

====
